---------------------------- MODULE Spec2Model ----------------------------
(***************************************************************************)
(* State-machine model of the report builder widget:                       *)
(*   ReportBuilderWidget    (src/static/src/js/report_builder.js)          *)
(*   ReportBuilderExtended  (src/unnamed/part_000)                         *)
(* One action per handler; an async handler is split at its awaits, the    *)
(* continuation waiting in `pending` until the RPC resolves or rejects.    *)
(***************************************************************************)
EXTENDS Integers, Sequences, FiniteSets, TLC

(***************************************************************************)
(* Bounds of the model.                                                    *)
(***************************************************************************)
MaxFields == 2
MaxFilters == 1
MaxHist == 2
MaxPending == 2
MaxNow == 1
MaxExecutions == 2
MaxAdds == 3
MaxTimers == 2

(***************************************************************************)
(* Program constants.                                                      *)
(***************************************************************************)
HistoryLimit == 50
PreviewLimit == 100
DefaultInterval == 30000

(***************************************************************************)
(* Values.                                                                 *)
(***************************************************************************)
\* JS null, for the nullable record-valued slots (selectedModel, reportData,
\* lastCacheKey)
Null == [null |-> TRUE]

\* what orm.searchRead("ir.model", ...) answers
ModelList ==
    << [id |-> 1, name |-> "Contact", model |-> "res.partner"],
       [id |-> 2, name |-> "Sales Order", model |-> "sale.order"] >>

\* what /universal_reports/get_model_fields answers in result.fields
ServerFields(modelName) ==
    IF modelName = "res.partner"
    THEN << [name |-> "name", string |-> "Name", type |-> "char"],
            [name |-> "email", string |-> "Email", type |-> "char"] >>
    ELSE << [name |-> "name", string |-> "Order", type |-> "char"],
            [name |-> "amount_total", string |-> "Total", type |-> "monetary"] >>

Range(s) == {s[i] : i \in 1..Len(s)}

\* Array.prototype.findIndex, 1-based; 0 stands for JS -1
FindIndex(s, Test(_)) ==
    IF \E i \in 1..Len(s) : Test(s[i])
    THEN CHOOSE i \in 1..Len(s) : Test(s[i]) /\ \A j \in 1..(i - 1) : ~Test(s[j])
    ELSE 0

\* Array.prototype.splice(index, 1)
RemoveAt(s, i) == SubSeq(s, 1, i - 1) \o SubSeq(s, i + 1, Len(s))

guessFormatType(fieldType) ==
    CASE fieldType = "char" -> "text"
      [] fieldType = "text" -> "text"
      [] fieldType = "integer" -> "number"
      [] fieldType = "float" -> "number"
      [] fieldType = "monetary" -> "currency"
      [] fieldType = "date" -> "date"
      [] fieldType = "datetime" -> "datetime"
      [] fieldType = "boolean" -> "boolean"
      [] fieldType = "selection" -> "selection"
      [] OTHER -> "text"

\* the object addField and the bulk dialog's onConfirm push; a label is the
\* sequence of its pieces (the field's string, then one piece per copy suffix)
NewFieldSpec(field, seqNo) ==
    [name |-> field.name, label |-> <<field.string>>, type |-> field.type,
     visible |-> TRUE, sequence |-> seqNo,
     format_type |-> guessFormatType(field.type), aggregation |-> "none"]

VARIABLES
    \* ReportBuilderWidget.state
    availableModels, selectedModel, availableFields,
    selectedFields, filters, groups, sorts,
    reportData, reportCount,
    loading, previewMode, currentStep, errors,
    \* ReportBuilderExtended.state
    history, historyIndex, cachedResults, lastCacheKey, executionStats,
    \* the JS heap: index (0-based) of the history entry whose snapshot arrays
    \* ARE the live collections (restoreState assigns them by reference), -1
    \* when the live collections are arrays of their own
    liveRef,
    \* environment: Date.now(), the awaits in flight, the last exported
    \* settings file, the open modal dialog, the last notification shown
    now, pending, settingsFile, dialog, notification,
    \* the component's life cycle: "setup" (onWillStart has not run),
    \* "starting" (loadInitialData awaited), "mounted", "destroyed"
    lifecycle,
    \* auto-refresh: the flag, the period in ms, this.refreshTimer (0: null),
    \* and the environment's interval timers: the active ones (id and period)
    \* and the last id setInterval handed out
    autoRefresh, refreshInterval, refreshTimer, timers, timerSeq,
    \* observers used by the properties only (no handler reads them)
    probe, cacheLog

modelVars == <<availableModels, selectedModel, availableFields>>
defVars == <<selectedFields, filters, groups, sorts>>
reportVars == <<reportData, reportCount, currentStep>>
uiVars == <<loading, previewMode, errors>>
histVars == <<history, historyIndex, liveRef>>
cacheVars == <<cachedResults, lastCacheKey, executionStats>>
timerVars == <<autoRefresh, refreshInterval, refreshTimer, timers, timerSeq>>
obsVars == <<probe, cacheLog>>

vars == <<modelVars, defVars, reportVars, uiVars, histVars, cacheVars,
          now, pending, settingsFile, dialog, notification, lifecycle,
          timerVars, obsVars>>

NoDialog == [kind |-> "none", availableFields |-> <<>>]
NoFile == [kind |-> "none"]
NoProbe == [stage |-> "idle"]

Init ==
    /\ availableModels = <<>>
    /\ selectedModel = Null
    /\ availableFields = <<>>
    /\ selectedFields = <<>>
    /\ filters = <<>>
    /\ groups = <<>>
    /\ sorts = <<>>
    /\ reportData = Null
    /\ reportCount = 0
    /\ loading = FALSE
    /\ previewMode = FALSE
    /\ currentStep = 1
    /\ errors = <<>>
    /\ history = <<>>
    /\ historyIndex = -1
    /\ cachedResults = {}
    /\ lastCacheKey = Null
    /\ executionStats = [totalExecutions |-> 0, avgExecutionTime |-> <<0, 1>>,
                         lastExecutionTime |-> 0]
    /\ liveRef = -1
    /\ now = 0
    /\ pending = <<>>
    /\ settingsFile = NoFile
    /\ dialog = NoDialog
    /\ notification = "none"
    /\ lifecycle = "setup"
    /\ autoRefresh = FALSE
    /\ refreshInterval = DefaultInterval
    /\ refreshTimer = 0
    /\ timers = {}
    /\ timerSeq = 0
    /\ probe = NoProbe
    /\ cacheLog = {}


(***************************************************************************)
(* The four tracked collections and the history entry that shares them.    *)
(***************************************************************************)
Snapshot(sf, fl, gr, so) ==
    [selectedFields |-> sf, filters |-> fl, groups |-> gr, sorts |-> so]

Live == Snapshot(selectedFields, filters, groups, sorts)

\* push/splice/property writes act on the array objects themselves: when a
\* history entry holds the same arrays (liveRef), it changes with them
Patched(h, snap) ==
    IF liveRef >= 0 THEN [h EXCEPT ![liveRef + 1].state = snap] ELSE h

\* an in-place edit of the live collections outside addToHistory
EditInPlace(sf, fl, gr, so) ==
    /\ selectedFields' = sf
    /\ filters' = fl
    /\ groups' = gr
    /\ sorts' = so
    /\ history' = Patched(history, Snapshot(sf, fl, gr, so))
    /\ UNCHANGED <<historyIndex, liveRef>>

\* this.state.<collection> = <a fresh array>: nothing is shared afterwards
AssignFresh(sf, fl, gr, so) ==
    /\ selectedFields' = sf
    /\ filters' = fl
    /\ groups' = gr
    /\ sorts' = so

(***************************************************************************)
(* ReportBuilderWidget: fields.                                            *)
(***************************************************************************)
HasField(fieldName) == \E i \in 1..Len(selectedFields) : selectedFields[i].name = fieldName

\* addField without the look-up of the name among the selected fields
addFieldUnchecked(field) ==
    /\ EditInPlace(Append(selectedFields,
                          NewFieldSpec(field, Len(selectedFields) + 1)),
                   filters, groups, sorts)
    /\ notification' = "success"
    /\ UNCHANGED <<modelVars, reportVars, uiVars, cacheVars, now, pending,
                   settingsFile, dialog, lifecycle, timerVars>>

addField(field) ==
    /\ IF ~HasField(field.name)
       THEN /\ EditInPlace(Append(selectedFields,
                                  NewFieldSpec(field, Len(selectedFields) + 1)),
                           filters, groups, sorts)
            /\ notification' = "success"
       ELSE /\ UNCHANGED <<defVars, histVars>>
            /\ notification' = "warning"
    /\ UNCHANGED <<modelVars, reportVars, uiVars, cacheVars, now, pending,
                   settingsFile, dialog, lifecycle, timerVars>>

removeField(fieldName) ==
    LET index == FindIndex(selectedFields, LAMBDA f : f.name = fieldName)
    IN /\ IF index > 0
          THEN /\ EditInPlace(RemoveAt(selectedFields, index), filters, groups, sorts)
               /\ notification' = "info"
          ELSE UNCHANGED <<defVars, histVars, notification>>
       /\ UNCHANGED <<modelVars, reportVars, uiVars, cacheVars, now, pending,
                      settingsFile, dialog, lifecycle, timerVars>>

\* fields.forEach((field, idx) => field.sequence = idx + 1)
Resequenced(fields) == [i \in 1..Len(fields) |-> [fields[i] EXCEPT !.sequence = i]]

Swapped(fields, i, j) == [fields EXCEPT ![i] = fields[j], ![j] = fields[i]]

moveField(fieldName, direction) ==
    LET index == FindIndex(selectedFields, LAMBDA f : f.name = fieldName)
        newIndex == IF direction = "up" THEN index - 1 ELSE index + 1
    IN /\ IF index > 0 /\ newIndex >= 1 /\ newIndex <= Len(selectedFields)
          THEN EditInPlace(Resequenced(Swapped(selectedFields, index, newIndex)),
                           filters, groups, sorts)
          ELSE UNCHANGED <<defVars, histVars>>
       /\ UNCHANGED <<modelVars, reportVars, uiVars, cacheVars, now, pending,
                      settingsFile, dialog, notification, lifecycle, timerVars>>

(***************************************************************************)
(* ReportBuilderWidget: filters, sorts, groups.                            *)
(***************************************************************************)
addFilter ==
    /\ EditInPlace(selectedFields,
                   Append(filters, [id |-> now, field |-> "", field_type |-> "char",
                                    operator |-> "=", value |-> "", active |-> TRUE]),
                   groups, sorts)
    /\ UNCHANGED <<modelVars, reportVars, uiVars, cacheVars, now, pending,
                   settingsFile, dialog, notification, lifecycle, timerVars>>

removeFilter(filterId) ==
    LET index == FindIndex(filters, LAMBDA f : f.id = filterId)
    IN /\ IF index > 0
          THEN EditInPlace(selectedFields, RemoveAt(filters, index), groups, sorts)
          ELSE UNCHANGED <<defVars, histVars>>
       /\ UNCHANGED <<modelVars, reportVars, uiVars, cacheVars, now, pending,
                      settingsFile, dialog, notification, lifecycle, timerVars>>

\* filter[property] = value, then field_type from availableFields when the
\* property is "field" and the field is found
UpdatedFilter(filter, property, value) ==
    LET set == [filter EXCEPT ![property] = value]
        at == FindIndex(availableFields, LAMBDA f : f.name = value)
    IN IF property = "field" /\ at > 0
       THEN [set EXCEPT !.field_type = availableFields[at].type]
       ELSE set

updateFilter(filterId, property, value) ==
    LET index == FindIndex(filters, LAMBDA f : f.id = filterId)
    IN /\ IF index > 0
          THEN EditInPlace(selectedFields,
                           [filters EXCEPT ![index] =
                                UpdatedFilter(filters[index], property, value)],
                           groups, sorts)
          ELSE UNCHANGED <<defVars, histVars>>
       /\ UNCHANGED <<modelVars, reportVars, uiVars, cacheVars, now, pending,
                      settingsFile, dialog, notification, lifecycle, timerVars>>

addSort ==
    /\ EditInPlace(selectedFields, filters, groups,
                   Append(sorts, [id |-> now, field |-> "", direction |-> "asc"]))
    /\ UNCHANGED <<modelVars, reportVars, uiVars, cacheVars, now, pending,
                   settingsFile, dialog, notification, lifecycle, timerVars>>

removeSort(sortId) ==
    LET index == FindIndex(sorts, LAMBDA x : x.id = sortId)
    IN /\ IF index > 0
          THEN EditInPlace(selectedFields, filters, groups, RemoveAt(sorts, index))
          ELSE UNCHANGED <<defVars, histVars>>
       /\ UNCHANGED <<modelVars, reportVars, uiVars, cacheVars, now, pending,
                      settingsFile, dialog, notification, lifecycle, timerVars>>

addGroup ==
    /\ EditInPlace(selectedFields, filters,
                   Append(groups, [id |-> now, field |-> "", show_totals |-> TRUE]),
                   sorts)
    /\ UNCHANGED <<modelVars, reportVars, uiVars, cacheVars, now, pending,
                   settingsFile, dialog, notification, lifecycle, timerVars>>

removeGroup(groupId) ==
    LET index == FindIndex(groups, LAMBDA g : g.id = groupId)
    IN /\ IF index > 0
          THEN EditInPlace(selectedFields, filters, RemoveAt(groups, index), sorts)
          ELSE UNCHANGED <<defVars, histVars>>
       /\ UNCHANGED <<modelVars, reportVars, uiVars, cacheVars, now, pending,
                      settingsFile, dialog, notification, lifecycle, timerVars>>

(***************************************************************************)
(* ReportBuilderExtended: history, undo, redo.                             *)
(***************************************************************************)
\* history.slice(0, historyIndex + 1) when the cursor is before the last entry
Truncated(h, idx) == IF idx < Len(h) - 1 THEN SubSeq(h, 1, idx + 1) ELSE h

\* addToHistory without the capacity check
addToHistoryUnbounded(action, data, snap, h, ref) ==
    LET historyItem == [action |-> action, data |-> data, timestamp |-> now,
                        state |-> snap]
        pushed == Append(Truncated(h, historyIndex), historyItem)
    IN /\ history' = pushed
       /\ historyIndex' = Len(pushed) - 1
       /\ liveRef' = IF ref > historyIndex THEN -1 ELSE ref

\* addToHistory that appends without cutting the entries after the cursor
addToHistoryKeepingBranch(action, data, snap, h, ref) ==
    LET historyItem == [action |-> action, data |-> data, timestamp |-> now,
                        state |-> snap]
        pushed == Append(h, historyItem)
        over == Len(pushed) > HistoryLimit
    IN /\ history' = IF over THEN Tail(pushed) ELSE pushed
       /\ historyIndex' = IF over THEN (Len(pushed) - 1) - 1 ELSE Len(pushed) - 1
       /\ liveRef' = IF over /\ ref >= 0 THEN ref - 1 ELSE ref

\* addToHistory(action, data) on the history h, snap being the JSON copy of
\* the live collections and ref the entry sharing them (-1: none); the
\* shared entry moves with shift() and is lost when the slice or the shift
\* drops it
addToHistory(action, data, snap, h, ref) ==
    LET historyItem == [action |-> action, data |-> data, timestamp |-> now,
                        state |-> snap]
        pushed == Append(Truncated(h, historyIndex), historyItem)
        over == Len(pushed) > HistoryLimit
        kept == IF ref > historyIndex THEN -1 ELSE ref
    IN /\ history' = IF over THEN Tail(pushed) ELSE pushed
       /\ historyIndex' = IF over THEN (Len(pushed) - 1) - 1 ELSE Len(pushed) - 1
       /\ liveRef' = IF over /\ kept >= 0 THEN kept - 1 ELSE kept

\* Object.assign(this.state, savedState): the live collections become the
\* arrays of the entry at index idx
restoreState(idx) ==
    /\ selectedFields' = history[idx + 1].state.selectedFields
    /\ filters' = history[idx + 1].state.filters
    /\ groups' = history[idx + 1].state.groups
    /\ sorts' = history[idx + 1].state.sorts
    /\ liveRef' = idx

\* undo that moves the cursor and leaves the collections as they are
undoWithoutRestore ==
    /\ IF historyIndex > 0
       THEN /\ historyIndex' = historyIndex - 1
            /\ notification' = "info"
            /\ UNCHANGED <<defVars, liveRef>>
       ELSE /\ UNCHANGED <<defVars, historyIndex, liveRef>>
            /\ notification' = "warning"
    /\ UNCHANGED <<modelVars, reportVars, uiVars, history, cacheVars, now,
                   pending, settingsFile, dialog, lifecycle, timerVars>>

undo ==
    /\ IF historyIndex > 0
       THEN /\ historyIndex' = historyIndex - 1
            /\ restoreState(historyIndex - 1)
            /\ notification' = "info"
       ELSE /\ UNCHANGED <<defVars, historyIndex, liveRef>>
            /\ notification' = "warning"
    /\ UNCHANGED <<modelVars, reportVars, uiVars, history, cacheVars, now,
                   pending, settingsFile, dialog, lifecycle, timerVars>>

redo ==
    /\ IF historyIndex < Len(history) - 1
       THEN /\ historyIndex' = historyIndex + 1
            /\ restoreState(historyIndex + 1)
            /\ notification' = "info"
       ELSE /\ UNCHANGED <<defVars, historyIndex, liveRef>>
            /\ notification' = "warning"
    /\ UNCHANGED <<modelVars, reportVars, uiVars, history, cacheVars, now,
                   pending, settingsFile, dialog, lifecycle, timerVars>>

(***************************************************************************)
(* ReportBuilderExtended: duplicate, bulk add.                             *)
(***************************************************************************)
\* {...originalField, label: label + " (copy)", sequence: length + 1}
DuplicatedField(originalField) ==
    [originalField EXCEPT !.label = Append(@, "(copy)"),
                          !.sequence = Len(selectedFields) + 1]

duplicateField(fieldName) ==
    LET index == FindIndex(selectedFields, LAMBDA f : f.name = fieldName)
        fields == Append(selectedFields, DuplicatedField(selectedFields[index]))
        snap == Snapshot(fields, filters, groups, sorts)
    IN /\ IF index > 0
          THEN /\ selectedFields' = fields
               /\ addToHistory("duplicate_field", [field |-> fieldName], snap,
                               Patched(history, snap), liveRef)
               /\ notification' = "success"
          ELSE UNCHANGED <<selectedFields, histVars, notification>>
       /\ UNCHANGED <<modelVars, filters, groups, sorts, reportVars, uiVars,
                      cacheVars, now, pending, settingsFile, dialog, lifecycle, timerVars>>

\* availableFields minus the fields already selected
BulkCandidates ==
    SelectSeq(availableFields, LAMBDA af : ~HasField(af.name))

bulkAddFields ==
    /\ IF Len(BulkCandidates) = 0
       THEN /\ notification' = "warning"
            /\ UNCHANGED dialog
       ELSE /\ dialog' = [kind |-> "bulk", availableFields |-> BulkCandidates]
            /\ UNCHANGED notification
    /\ UNCHANGED <<modelVars, defVars, reportVars, uiVars, histVars, cacheVars,
                   now, pending, settingsFile, lifecycle, timerVars>>

\* the selections the dialog can hold: toggleField adds and removes by name
DialogSelections(candidates) ==
    {sel \in UNION {[1..n -> Range(candidates)] : n \in 0..Len(candidates)} :
        \A i, j \in 1..Len(sel) : i # j => sel[i].name # sel[j].name}

\* selectedFields.forEach((field, index) => push({..., sequence:
\* this.state.selectedFields.length + index + 1})): the length read at the
\* i-th push (index i - 1) already counts the i - 1 entries pushed before
BulkPushed(fields, chosen) ==
    fields \o [i \in 1..Len(chosen) |->
                 NewFieldSpec(chosen[i], (Len(fields) + (i - 1)) + (i - 1) + 1)]

\* BulkFieldSelectionDialog.confirm: props.onConfirm(selection), props.close()
bulkConfirm(chosen) ==
    LET fields == BulkPushed(selectedFields, chosen)
        snap == Snapshot(fields, filters, groups, sorts)
    IN /\ dialog.kind = "bulk"
       /\ selectedFields' = fields
       /\ addToHistory("bulk_add_fields", [count |-> Len(chosen)], snap,
                       Patched(history, snap), liveRef)
       /\ notification' = "success"
       /\ dialog' = NoDialog
       /\ UNCHANGED <<modelVars, filters, groups, sorts, reportVars, uiVars,
                      cacheVars, now, pending, settingsFile, lifecycle, timerVars>>

\* the dialog dismissed without confirming
closeDialog ==
    /\ dialog.kind # "none"
    /\ dialog' = NoDialog
    /\ UNCHANGED <<modelVars, defVars, reportVars, uiVars, histVars, cacheVars,
                   now, pending, settingsFile, notification, lifecycle, timerVars>>

(***************************************************************************)
(* ReportBuilderWidget: loading the models, changing the model.            *)
(***************************************************************************)
User == [kind |-> "user"]

\* a handler that resets loading only at the end of its try block
releaseOnSuccess(succeeded) ==
    IF succeeded THEN loading' = FALSE ELSE UNCHANGED loading

\* finally { this.state.loading = false }: runs whether the try block
\* completed or threw
finallyLoading(succeeded) == loading' = FALSE

\* onWillStart(this.loadInitialData), up to the await of orm.searchRead
loadInitialData ==
    /\ lifecycle = "setup"
    /\ lifecycle' = "starting"
    /\ UNCHANGED timerVars
    /\ loading' = TRUE
    /\ pending' = Append(pending, [kind |-> "load"])
    /\ UNCHANGED <<modelVars, defVars, reportVars, previewMode, errors,
                   histVars, cacheVars, now, settingsFile, dialog, notification>>

\* orm.searchRead resolves (ok) or rejects; the component mounts afterwards
loadResponse(i, ok) ==
    /\ pending[i].kind = "load"
    /\ pending' = RemoveAt(pending, i)
    /\ IF ok
       THEN availableModels' = ModelList /\ UNCHANGED notification
       ELSE notification' = "danger" /\ UNCHANGED availableModels
    /\ finallyLoading(ok)
    /\ lifecycle' = "mounted"
    /\ UNCHANGED timerVars
    /\ UNCHANGED <<selectedModel, availableFields, defVars, reportVars,
                   previewMode, errors, histVars, cacheVars, now, settingsFile,
                   dialog>>

\* clearReportData: fresh empty collections, no report
clearReportData ==
    /\ AssignFresh(<<>>, <<>>, <<>>, <<>>)
    /\ reportData' = Null
    /\ reportCount' = 0
    /\ currentStep' = 1

\* what importSettings does once its await of onModelChange returns
importApply(caller) ==
    LET settings == caller.settings
        Section(k) == IF k \in DOMAIN settings THEN settings[k] ELSE <<>>
        sf == Section("fields")
        fl == Section("filters")
        gr == Section("groups")
        so == Section("sorts")
    IN /\ AssignFresh(sf, fl, gr, so)
       /\ addToHistory("import_settings", [filename |-> caller.filename],
                       Snapshot(sf, fl, gr, so), history, -1)
       /\ notification' = "success"

\* onModelChange(modelId) up to its first await, or to its end when it ends
\* without awaiting; modelId 0 stands for a falsy id
onModelChange(modelId, caller) ==
    LET at == FindIndex(availableModels, LAMBDA m : m.id = modelId)
    IN /\ IF modelId = 0
          THEN \* clearModelData
               /\ selectedModel' = Null
               /\ availableFields' = <<>>
               /\ clearReportData
               /\ liveRef' = -1
               /\ UNCHANGED <<loading, errors, history, historyIndex, pending,
                              notification>>
          ELSE IF at = 0
          THEN \* throw new Error("model not found"), caught; finally
               /\ finallyLoading(FALSE)
               /\ errors' = <<>>
               /\ IF caller.kind = "import"
                  THEN importApply(caller)
                  ELSE notification' = "danger" /\ UNCHANGED <<defVars, histVars>>
               /\ UNCHANGED <<selectedModel, availableFields, reportVars, pending>>
          ELSE /\ loading' = TRUE
               /\ errors' = <<>>
               /\ selectedModel' = availableModels[at]
               /\ pending' = Append(pending, [kind |-> "fields",
                                              model |-> availableModels[at],
                                              caller |-> caller])
               /\ UNCHANGED <<availableFields, defVars, reportVars, histVars,
                              notification>>
       /\ UNCHANGED <<availableModels, previewMode, cacheVars, now,
                      settingsFile, dialog, lifecycle, timerVars>>

\* /universal_reports/get_model_fields answers: "ok" (success), "fail"
\* (success = false), "reject" (the RPC rejects); then finally, and the rest
\* of importSettings when the call was awaited by it
fieldsResponse(i, outcome) ==
    LET call == pending[i]
    IN /\ call.kind = "fields"
       /\ pending' = RemoveAt(pending, i)
       /\ finallyLoading(outcome = "ok")
       /\ IF outcome = "ok"
          THEN /\ availableFields' = ServerFields(call.model.model)
               /\ reportData' = Null
               /\ reportCount' = 0
               /\ currentStep' = 1
          ELSE UNCHANGED <<availableFields, reportVars>>
       /\ IF call.caller.kind = "import"
          THEN importApply(call.caller)
          ELSE IF outcome = "ok"
          THEN /\ AssignFresh(<<>>, <<>>, <<>>, <<>>)
               /\ liveRef' = -1
               /\ notification' = "success"
               /\ UNCHANGED <<history, historyIndex>>
          ELSE /\ notification' = "danger"
               /\ UNCHANGED <<defVars, histVars>>
       /\ UNCHANGED <<availableModels, selectedModel, previewMode, errors,
                      cacheVars, now, settingsFile, dialog, lifecycle, timerVars>>

(***************************************************************************)
(* ReportBuilderExtended: settings export and import.                      *)
(***************************************************************************)
\* the downloaded document: JSON.stringify(settings, null, 2), named
\* report_settings_<Date.now()>.json
exportSettings ==
    /\ settingsFile' =
         [kind |-> "json", name |-> <<"report_settings_", now, ".json">>,
          settings |-> [model |-> selectedModel, fields |-> selectedFields,
                        filters |-> filters, groups |-> groups, sorts |-> sorts,
                        metadata |-> [exported_at |-> now, version |-> "1.0"]]]
    /\ notification' = "success"
    /\ UNCHANGED <<modelVars, defVars, reportVars, uiVars, histVars, cacheVars,
                   now, pending, dialog, lifecycle, timerVars>>

\* files that are no settings document: text JSON.parse rejects, a document
\* with no model, with a null model, with no fields
MalformedFiles ==
    { [kind |-> "text", name |-> "notes.txt"],
      [kind |-> "json", name |-> "nomodel.json",
       settings |-> [fields |-> <<>>]],
      [kind |-> "json", name |-> "nullmodel.json",
       settings |-> [model |-> Null, fields |-> <<>>]],
      [kind |-> "json", name |-> "nofields.json",
       settings |-> [model |-> ModelList[1]]] }

\* !settings.model || !settings.fields, or JSON.parse throwing
Malformed(file) ==
    \/ file.kind # "json"
    \/ "model" \notin DOMAIN file.settings
    \/ file.settings.model = Null
    \/ "fields" \notin DOMAIN file.settings

\* an import that assigns the sections of a parsed document before it checks
\* the document's structure
importSettingsEager(file) ==
    IF Malformed(file)
    THEN /\ IF file.kind = "json"
            THEN /\ AssignFresh(IF "fields" \in DOMAIN file.settings
                                THEN file.settings.fields ELSE <<>>,
                                <<>>, <<>>, <<>>)
                 /\ liveRef' = -1
            ELSE UNCHANGED <<defVars, liveRef>>
         /\ notification' = "danger"
         /\ UNCHANGED <<modelVars, reportVars, uiVars, history, historyIndex,
                        cacheVars, now, pending, settingsFile, dialog, lifecycle, timerVars>>
    ELSE onModelChange(file.settings.model.id,
                       [kind |-> "import", settings |-> file.settings,
                        filename |-> file.name])

\* input.onchange once file.text() is read
importSettings(file) ==
    IF Malformed(file)
    THEN /\ notification' = "danger"
         /\ UNCHANGED <<modelVars, defVars, reportVars, uiVars, histVars,
                        cacheVars, now, pending, settingsFile, dialog, lifecycle, timerVars>>
    ELSE onModelChange(file.settings.model.id,
                       [kind |-> "import", settings |-> file.settings,
                        filename |-> file.name])

(***************************************************************************)
(* ReportBuilderWidget: validation and the prepared payloads.              *)
(***************************************************************************)
\* a validation that asks a value of every active filter with a field,
\* whatever its operator
ValidationErrorsAnyOperator ==
    LET invalidFilters ==
            SelectSeq(filters, LAMBDA f : f.active /\ f.field # "" /\ f.value = "")
    IN (IF selectedModel = Null THEN <<"model">> ELSE <<>>)
       \o (IF Len(selectedFields) = 0 THEN <<"fields">> ELSE <<>>)
       \o (IF Len(invalidFilters) > 0 THEN <<"filters">> ELSE <<>>)

\* the error list validateReportSettings accumulates
ValidationErrors ==
    LET invalidFilters ==
            SelectSeq(filters, LAMBDA f : f.active /\ f.field # "" /\ f.value = ""
                                          /\ f.operator # "!=")
    IN (IF selectedModel = Null THEN <<"model">> ELSE <<>>)
       \o (IF Len(selectedFields) = 0 THEN <<"fields">> ELSE <<>>)
       \o (IF Len(invalidFilters) > 0 THEN <<"filters">> ELSE <<>>)

prepareFields ==
    [i \in 1..Len(selectedFields) |->
        [field_name |-> selectedFields[i].name,
         field_label |-> selectedFields[i].label,
         field_type |-> selectedFields[i].type,
         visible |-> selectedFields[i].visible,
         sequence |-> i,
         format_type |-> selectedFields[i].format_type,
         aggregation |-> selectedFields[i].aggregation]]

prepareFilters ==
    LET kept == SelectSeq(filters, LAMBDA f : f.active /\ f.field # "" /\ f.value # "")
    IN [i \in 1..Len(kept) |->
           [field |-> kept[i].field, operator |-> kept[i].operator,
            value |-> kept[i].value]]

prepareFiltersForSave ==
    LET kept == SelectSeq(filters, LAMBDA f : f.field # "")
    IN [i \in 1..Len(kept) |->
           [name |-> <<"Filter", i>>, field_name |-> kept[i].field,
            operator |-> kept[i].operator, value |-> kept[i].value,
            active |-> kept[i].active, sequence |-> i]]

\* the record createTempReport builds before it awaits orm.create
TempReport ==
    [model_id |-> selectedModel.id, field_ids |-> prepareFields,
     filter_ids |-> prepareFiltersForSave]

(***************************************************************************)
(* ReportBuilderExtended: the result cache and the statistics.             *)
(***************************************************************************)
\* JSON.stringify({model, fields, filters, sorts, groups}); a missing model
\* serialises as no model at all
generateCacheKey ==
    [model |-> IF selectedModel = Null THEN "" ELSE selectedModel.model,
     fields |-> [i \in 1..Len(selectedFields) |-> selectedFields[i].name],
     filters |-> prepareFilters,
     sorts |-> SelectSeq(sorts, LAMBDA x : x.field # ""),
     groups |-> SelectSeq(groups, LAMBDA g : g.field # "")]

CacheHas(cache, key) == \E e \in cache : e.key = key

CacheGet(cache, key) == (CHOOSE e \in cache : e.key = key).rows

\* Map.prototype.set
CacheSet(cache, key, rows) ==
    {e \in cache : e.key # key} \cup {[key |-> key, rows |-> rows]}

RECURSIVE GCD(_, _)
GCD(a, b) == IF b = 0 THEN a ELSE GCD(b, a % b)

\* updateExecutionStats; the average is kept as a reduced fraction <<p, q>>
updateExecutionStats(stats, executionTime) ==
    LET n == stats.totalExecutions + 1
        p == stats.avgExecutionTime[1] * (n - 1)
             + executionTime * stats.avgExecutionTime[2]
        q == stats.avgExecutionTime[2] * n
        g == GCD(p, q)
    IN [totalExecutions |-> n, lastExecutionTime |-> executionTime,
        avgExecutionTime |-> <<p \div g, q \div g>>]

\* the same lines without the write to the cache
cacheStoreSkipped(caller, rows) ==
    /\ UNCHANGED <<cachedResults, lastCacheKey>>
    /\ executionStats' = updateExecutionStats(executionStats, now - caller.startTime)

\* the lines of executeWithCache after `await this.executeReport()`, rows
\* being this.state.reportData at that moment
cacheStore(caller, rows) ==
    /\ IF rows # Null
       THEN /\ cachedResults' = CacheSet(cachedResults, caller.cacheKey, rows)
            /\ lastCacheKey' = caller.cacheKey
       ELSE UNCHANGED <<cachedResults, lastCacheKey>>
    /\ executionStats' = updateExecutionStats(executionStats, now - caller.startTime)

\* what follows the return of executeReport in its caller
afterExecuteReport(caller, rows) ==
    IF caller.kind = "cache" THEN cacheStore(caller, rows) ELSE UNCHANGED cacheVars

(***************************************************************************)
(* ReportBuilderWidget: executing the report.                              *)
(***************************************************************************)
\* executeReport up to its first await (orm.create in createTempReport), or
\* to its return when validation blocks it
executeReport(caller) ==
    /\ IF ValidationErrors # <<>>
       THEN /\ errors' = ValidationErrors
            /\ notification' = "danger"
            /\ afterExecuteReport(caller, reportData)
            /\ UNCHANGED <<loading, pending>>
       ELSE /\ errors' = <<>>
            /\ loading' = TRUE
            /\ pending' = Append(pending, [kind |-> "create", report |-> TempReport,
                                           caller |-> caller])
            /\ UNCHANGED <<notification, cacheVars>>
    /\ UNCHANGED <<modelVars, defVars, reportVars, previewMode, histVars, now,
                   settingsFile, dialog, lifecycle, timerVars>>

\* orm.create resolves (ok): the execution RPC is issued with the filters and
\* the limit read now; or it rejects: catch, finally, return
createResponse(i, ok) ==
    LET call == pending[i]
    IN /\ call.kind = "create"
       /\ IF ok
          THEN /\ pending' = Append(RemoveAt(pending, i),
                                    [kind |-> "execute", report_id |-> call.report,
                                     filters |-> prepareFilters,
                                     limit |-> IF previewMode THEN PreviewLimit ELSE 0,
                                     caller |-> call.caller])
               /\ UNCHANGED <<loading, notification, cacheVars>>
          ELSE /\ pending' = RemoveAt(pending, i)
               /\ notification' = "danger"
               /\ finallyLoading(FALSE)
               /\ afterExecuteReport(call.caller, reportData)
       /\ UNCHANGED <<modelVars, defVars, reportVars, previewMode, errors,
                      histVars, now, settingsFile, dialog, lifecycle, timerVars>>

\* the rows the server answers for an execution request (limit 0: no limit)
ServerRows(call) ==
    [report |-> call.report_id, filters |-> call.filters, limit |-> call.limit,
     length |-> 2]

\* the same answer handling, entering step 4 whatever the answer
executeAnsweredAdvancing(i, outcome, count) ==
    LET call == pending[i]
    IN /\ call.kind = "execute"
       /\ pending' = RemoveAt(pending, i)
       /\ currentStep' = 4
       /\ IF outcome = "ok"
          THEN /\ reportData' = ServerRows(call)
               /\ reportCount' = count
               /\ notification' = "success"
          ELSE /\ notification' = "danger"
               /\ UNCHANGED <<reportData, reportCount>>
       /\ finallyLoading(outcome = "ok")
       /\ afterExecuteReport(call.caller, reportData')
       /\ UNCHANGED <<modelVars, defVars, previewMode, errors, histVars, now,
                      settingsFile, dialog, lifecycle, timerVars>>

\* /universal_reports/execute_report answers "ok" (success, with its data and
\* its count), "fail" (success = false) or "reject"; then finally, and the
\* caller's continuation
executeAnswered(i, outcome, count) ==
    LET call == pending[i]
    IN /\ call.kind = "execute"
       /\ pending' = RemoveAt(pending, i)
       /\ IF outcome = "ok"
          THEN /\ reportData' = ServerRows(call)
               /\ reportCount' = count
               /\ notification' = "success"
               /\ currentStep' = 4
          ELSE /\ notification' = "danger"
               /\ UNCHANGED reportVars
       /\ finallyLoading(outcome = "ok")
       /\ afterExecuteReport(call.caller, reportData')
       /\ UNCHANGED <<modelVars, defVars, previewMode, errors, histVars, now,
                      settingsFile, dialog, lifecycle, timerVars>>

\* the answer of a server whose count is the number of rows it returns
executeResponse(i, outcome) ==
    executeAnswered(i, outcome, ServerRows(pending[i]).length)

\* executeWithCache up to its return (a hit) or to the first await of
\* executeReport (a miss)
executeWithCache ==
    IF CacheHas(cachedResults, generateCacheKey)
    THEN /\ reportData' = CacheGet(cachedResults, generateCacheKey)
         /\ reportCount' = CacheGet(cachedResults, generateCacheKey).length
         /\ notification' = "info"
         /\ UNCHANGED <<modelVars, defVars, currentStep, uiVars, histVars,
                        cacheVars, now, pending, settingsFile, dialog, lifecycle, timerVars>>
    ELSE executeReport([kind |-> "cache", cacheKey |-> generateCacheKey,
                        startTime |-> now])

clearCache ==
    /\ cachedResults' = {}
    /\ notification' = "info"
    /\ UNCHANGED <<modelVars, defVars, reportVars, uiVars, histVars,
                   lastCacheKey, executionStats, now, pending, settingsFile,
                   dialog, lifecycle, timerVars>>

\* time passes: Date.now() grows
tick ==
    /\ now' = now + 1
    /\ UNCHANGED <<modelVars, defVars, reportVars, uiVars, histVars, cacheVars,
                   pending, settingsFile, dialog, notification, lifecycle, timerVars>>

(***************************************************************************)
(* ReportBuilderExtended: auto-refresh and teardown.                       *)
(***************************************************************************)
\* clearInterval(id)
Cleared(ts, id) == {t \in ts : t.id # id}

\* startAutoRefresh that sets the new timer without clearing the running one
startAutoRefreshLeaking(period) ==
    /\ timerSeq' = timerSeq + 1
    /\ timers' = timers \cup {[id |-> timerSeq + 1, period |-> period]}
    /\ refreshTimer' = timerSeq + 1

\* startAutoRefresh: the running timer, if any, is cleared and a new one is
\* set with the current period
startAutoRefresh(period) ==
    /\ timerSeq' = timerSeq + 1
    /\ timers' = Cleared(timers, refreshTimer)
                    \cup {[id |-> timerSeq + 1, period |-> period]}
    /\ refreshTimer' = timerSeq + 1

\* a stop that forgets the timer without clearing it
stopAutoRefreshForgetting ==
    /\ refreshTimer' = 0
    /\ UNCHANGED <<timers, timerSeq>>

stopAutoRefresh ==
    /\ IF refreshTimer # 0
       THEN timers' = Cleared(timers, refreshTimer) /\ refreshTimer' = 0
       ELSE UNCHANGED <<timers, refreshTimer>>
    /\ UNCHANGED timerSeq

toggleAutoRefresh ==
    /\ autoRefresh' = ~autoRefresh
    /\ IF ~autoRefresh
       THEN startAutoRefresh(refreshInterval) /\ notification' = "success"
       ELSE stopAutoRefresh /\ notification' = "info"
    /\ UNCHANGED <<modelVars, defVars, reportVars, uiVars, histVars, cacheVars,
                   now, pending, settingsFile, dialog, lifecycle,
                   refreshInterval>>

setRefreshInterval(seconds) ==
    /\ refreshInterval' = seconds * 1000
    /\ IF autoRefresh
       THEN startAutoRefresh(seconds * 1000)
       ELSE UNCHANGED <<refreshTimer, timers, timerSeq>>
    /\ notification' = "info"
    /\ UNCHANGED <<modelVars, defVars, reportVars, uiVars, histVars, cacheVars,
                   now, pending, settingsFile, dialog, lifecycle, autoRefresh>>

\* the callback of the interval timer t fires
refreshTick(t) ==
    /\ t \in timers
    /\ IF reportData # Null
       THEN executeWithCache
       ELSE UNCHANGED <<modelVars, defVars, reportVars, uiVars, histVars,
                        cacheVars, now, pending, settingsFile, dialog,
                        notification, lifecycle, timerVars>>

\* the component is destroyed
willDestroy ==
    /\ lifecycle' = "destroyed"
    /\ stopAutoRefresh
    /\ UNCHANGED <<modelVars, defVars, reportVars, uiVars, histVars, cacheVars,
                   now, pending, settingsFile, dialog, notification,
                   autoRefresh, refreshInterval>>

(***************************************************************************)
(* Observers.  probe follows a history-producing action and the undo and   *)
(* redo that come right after it; cacheLog keeps, since the last           *)
(* clearCache, the key of every executeWithCache call that has returned    *)
(* and whether reportData held rows when it did.                           *)
(***************************************************************************)
ProbeActed ==
    probe' = [stage |-> "acted", pre |-> Live, post |-> Live',
              held |-> Len(history), cursor |-> historyIndex]

ProbeUndo ==
    probe' = IF probe.stage = "acted" THEN [probe EXCEPT !.stage = "undone"]
             ELSE NoProbe

ProbeRedo ==
    probe' = IF probe.stage = "undone" THEN [probe EXCEPT !.stage = "redone"]
             ELSE NoProbe

ProbeReset == probe' = NoProbe

\* an executeWithCache call: was it served from the cache, and had a call
\* with the same key returned with rows since the last clearCache
ProbeCache ==
    probe' = [stage |-> IF CacheHas(cachedResults, generateCacheKey)
                        THEN "hit" ELSE "miss",
              key |-> generateCacheKey,
              logged |-> [key |-> generateCacheKey, rows |-> TRUE] \in cacheLog]

\* a step no observer follows
NoObs == ProbeReset /\ UNCHANGED cacheLog

\* the user can act: the component is mounted and no modal dialog is open
Interactive == lifecycle = "mounted" /\ dialog.kind = "none"

Quiet == pending = <<>>

FieldNames == {"name", "email", "amount_total"}

SelectedNames == {selectedFields[i].name : i \in 1..Len(selectedFields)}

FilterIds == {filters[i].id : i \in 1..Len(filters)}

(***************************************************************************)
(* Spec: editing the fields and the filter list, with history, undo and    *)
(* redo.  The RPCs succeed and the user waits for them.                    *)
(***************************************************************************)

StartUp ==
    \/ loadInitialData /\ NoObs
    \/ \E i \in 1..Len(pending) : loadResponse(i, TRUE) /\ NoObs

ChooseModel ==
    \/ \E id \in 1..2 : Interactive /\ Quiet /\ history = <<>>
                         /\ onModelChange(id, User) /\ NoObs
    \/ \E i \in 1..Len(pending) :
          /\ pending[i].kind = "fields" /\ pending[i].caller.kind = "user"
          /\ fieldsResponse(i, "ok") /\ NoObs

EditFields ==
    \/ \E i \in 1..Len(availableFields) :
          /\ Interactive /\ Quiet /\ Len(selectedFields) < MaxFields
          /\ addField(availableFields[i]) /\ NoObs
    \/ \E n \in SelectedNames : Interactive /\ Quiet /\ removeField(n) /\ NoObs
    \/ \E n \in SelectedNames, d \in {"up", "down"} :
          Interactive /\ Quiet /\ moveField(n, d) /\ NoObs

EditFilters ==
    \/ Interactive /\ Quiet /\ Len(filters) < MaxFilters /\ addFilter /\ NoObs
    \/ \E id \in FilterIds : Interactive /\ Quiet /\ removeFilter(id) /\ NoObs

HistoryActions ==
    \/ \E n \in SelectedNames :
          /\ Interactive /\ Quiet
          /\ Len(selectedFields) < MaxFields /\ Len(history) < MaxHist
          /\ duplicateField(n) /\ ProbeActed /\ UNCHANGED cacheLog
    \/ \E chosen \in DialogSelections(dialog.availableFields) :
          /\ dialog.kind = "bulk"
          /\ Len(selectedFields) + Len(chosen) <= MaxFields
          /\ bulkConfirm(chosen) /\ ProbeActed /\ UNCHANGED cacheLog

OpenBulk ==
    \/ Interactive /\ Quiet /\ Len(history) < MaxHist /\ bulkAddFields /\ NoObs
    \/ closeDialog /\ NoObs

UndoRedo ==
    \/ Interactive /\ Quiet /\ undo /\ ProbeUndo /\ UNCHANGED cacheLog
    \/ Interactive /\ Quiet /\ redo /\ ProbeRedo /\ UNCHANGED cacheLog

Next ==
    \/ StartUp
    \/ ChooseModel
    \/ EditFields
    \/ EditFilters
    \/ OpenBulk
    \/ HistoryActions
    \/ UndoRedo

Spec == Init /\ [][Next]_vars

(***************************************************************************)
(* Properties checked under Spec.                                          *)
(***************************************************************************)
\* C1: undo() right after a history-producing action (duplicateField, bulk
\* add confirm) restores the four collections to their values just before
\* the action, and redo() right after that undo restores them to their
\* values just after the action.
UndoRedoRoundTrip ==
    /\ probe.stage = "undone" => Live = probe.pre
    /\ probe.stage = "redone" => Live = probe.post

\* C2: the names of the entries of selectedFields are pairwise distinct in
\* every reachable state.
FieldNamesUnique ==
    \A i, j \in 1..Len(selectedFields) :
        i # j => selectedFields[i].name # selectedFields[j].name

\* a step of one of the editing handlers that never call addToHistory
EditStep ==
    \/ \E i \in 1..Len(availableFields) : addField(availableFields[i])
    \/ \E n \in SelectedNames : removeField(n)
    \/ \E n \in SelectedNames, d \in {"up", "down"} : moveField(n, d)
    \/ addFilter
    \/ \E id \in FilterIds : removeFilter(id)
    \/ \E id \in FilterIds, n \in FieldNames : updateFilter(id, "field", n)

\* C3: a recorded history entry never changes afterwards: the editing
\* handlers (addField, removeField, moveField, addFilter, removeFilter,
\* updateFilter), also when they run after an undo() or redo(), leave every
\* entry of the history as it was recorded.
SnapshotsIndependent == [][EditStep => history' = history]_vars

(***************************************************************************)
(* SpecCap: the history filled to its capacity by settings imports (the    *)
(* history-producing action that leaves the collections of bounded size),  *)
(* with undo, redo and the clock.                                          *)
(***************************************************************************)
MaxBack == 2

CapExport ==
    /\ Interactive /\ Quiet /\ selectedModel # Null /\ settingsFile = NoFile
    /\ exportSettings /\ NoObs

CapImport ==
    \/ /\ Interactive /\ Quiet /\ settingsFile # NoFile
       /\ importSettings(settingsFile) /\ NoObs
    \/ \E i \in 1..Len(pending) :
          /\ pending[i].kind = "fields" /\ pending[i].caller.kind = "import"
          /\ fieldsResponse(i, "ok") /\ ProbeActed /\ UNCHANGED cacheLog

CapUndoRedo ==
    \/ /\ Interactive /\ Quiet /\ (Len(history) - 1) - historyIndex < MaxBack
       /\ undo /\ ProbeUndo /\ UNCHANGED cacheLog
    \/ Interactive /\ Quiet /\ redo /\ ProbeRedo /\ UNCHANGED cacheLog

CapTick == now < MaxNow /\ tick /\ NoObs

NextCap ==
    \/ StartUp
    \/ ChooseModel
    \/ CapExport
    \/ CapImport
    \/ CapUndoRedo
    \/ CapTick

SpecCap == Init /\ [][NextCap]_vars

\* a step in which a settings import reaches its call of addToHistory
ImportRecorded ==
    \E i \in 1..Len(pending) :
        /\ pending[i].kind = "fields" /\ pending[i].caller.kind = "import"
        /\ \E outcome \in {"ok", "fail", "reject"} : fieldsResponse(i, outcome)

\* C4: the history never holds more than 50 entries; when addToHistory is
\* called with 50 entries and the cursor at the last one, the oldest entry
\* is evicted (the 49 others keep their order), the new entry is last and
\* the cursor points at it.
HistoryCapacity ==
    /\ [](Len(history) <= HistoryLimit)
    /\ [][(ImportRecorded /\ Len(history) = HistoryLimit
                          /\ historyIndex = HistoryLimit - 1)
          => /\ Len(history') = HistoryLimit
             /\ SubSeq(history', 1, HistoryLimit - 1) = Tail(history)
             /\ history'[HistoryLimit].action = "import_settings"
             /\ history'[HistoryLimit].timestamp = now
             /\ history'[HistoryLimit].state = Live'
             /\ historyIndex' = HistoryLimit - 1]_vars

\* C4 witness: addToHistory has just run on a full history with the cursor
\* at its last entry, and entries of different age were in it
HistoryEvicted ==
    /\ probe.stage = "acted"
    /\ probe.held = HistoryLimit
    /\ probe.cursor = HistoryLimit - 1
    /\ history[1].timestamp < history[HistoryLimit].timestamp

(***************************************************************************)
(* SpecExec: executing the report through the cache.  The user waits for   *)
(* an execution to return before acting again; the persistence and the     *)
(* execution RPC may fail.                                                 *)
(***************************************************************************)
\* an executeWithCache call with this key returns in this step
LogReturn(key) ==
    cacheLog' = cacheLog \cup {[key |-> key, rows |-> reportData' # Null]}

\* the observer's part of an executeWithCache step
LogCall ==
    IF CacheHas(cachedResults, generateCacheKey) \/ ValidationErrors # <<>>
    THEN LogReturn(generateCacheKey)
    ELSE UNCHANGED cacheLog

\* the observer's part of a response step
LogResponse(call) ==
    IF call.caller.kind = "cache" /\ pending' = RemoveAt(pending, 1)
    THEN LogReturn(call.caller.cacheKey)
    ELSE UNCHANGED cacheLog

ExecEdit ==
    \/ \E i \in 1..Len(availableFields) :
          /\ Interactive /\ Quiet /\ Len(selectedFields) < MaxFields
          /\ addField(availableFields[i]) /\ NoObs
    \/ \E n \in SelectedNames : Interactive /\ Quiet /\ removeField(n) /\ NoObs

ExecModel ==
    \/ /\ Interactive /\ Quiet /\ selectedModel = Null
       /\ onModelChange(1, User) /\ NoObs
    \/ \E i \in 1..Len(pending) :
          /\ pending[i].kind = "fields" /\ pending[i].caller.kind = "user"
          /\ fieldsResponse(i, "ok") /\ NoObs

ExecCalls ==
    \/ /\ Interactive /\ Quiet
       /\ executionStats.totalExecutions < MaxExecutions
       /\ executeWithCache /\ LogCall /\ ProbeCache
    \/ /\ Interactive /\ Quiet
       /\ executionStats.totalExecutions < MaxExecutions
       /\ executeReport(User) /\ NoObs
    \/ Interactive /\ Quiet /\ cachedResults # {} /\ clearCache
       /\ cacheLog' = {} /\ ProbeReset

ExecResponses ==
    \/ \E ok \in BOOLEAN :
          /\ Len(pending) = 1 /\ pending[1].kind = "create"
          /\ createResponse(1, ok) /\ LogResponse(pending[1]) /\ ProbeReset
    \/ \E outcome \in {"ok", "fail", "reject"} :
          /\ Len(pending) = 1 /\ pending[1].kind = "execute"
          /\ executeResponse(1, outcome) /\ LogResponse(pending[1]) /\ ProbeReset

NextExec ==
    \/ StartUp
    \/ ExecModel
    \/ ExecEdit
    \/ ExecCalls
    \/ ExecResponses

SpecExec == Init /\ [][NextExec]_vars

(***************************************************************************)
(* Properties checked under SpecExec.                                      *)
(***************************************************************************)
\* C5 as stated: when a call of executeWithCache with the same model, field
\* names, prepared filters, sorts and groups (hence the same key) has
\* returned since the cache was last cleared, a call of executeWithCache
\* issues no persistence and no execution request.
CacheDeterminism ==
    [][(executeWithCache /\ \E e \in cacheLog : e.key = generateCacheKey)
       => pending' = pending]_vars

\* C5 amended: when such an earlier call has returned with reportData holding
\* rows, the call issues no request and loads the rows stored under the key.
CacheDeterminismAfterRows ==
    [][(executeWithCache
        /\ [key |-> generateCacheKey, rows |-> TRUE] \in cacheLog)
       => /\ pending' = pending
          /\ CacheHas(cachedResults, generateCacheKey)
          /\ reportData' = CacheGet(cachedResults, generateCacheKey)]_vars

\* C5 witness: a second call with the key of a call that returned with rows
\* has just been served from the cache
SecondCallServed ==
    /\ probe.stage = "hit"
    /\ probe.logged
    /\ pending = <<>>
    /\ notification = "info"
    /\ reportData = CacheGet(cachedResults, probe.key)

\* the rows are those of an execution of the definition the key serialises
RowsFor(key, rows) ==
    /\ \E m \in Range(ModelList) : m.model = key.model /\ m.id = rows.report.model_id
    /\ [i \in 1..Len(rows.report.field_ids) |-> rows.report.field_ids[i].field_name]
          = key.fields
    /\ rows.filters = key.filters

\* a cache-miss call of executeWithCache returns in this step without a
\* successful execution: blocked by validation, persistence error, rejection
\* or success = false
FailedMissReturns ==
    \/ /\ executeWithCache
       /\ ~CacheHas(cachedResults, generateCacheKey)
       /\ ValidationErrors # <<>>
    \/ \E i \in 1..Len(pending) :
          /\ pending[i].kind = "create" /\ pending[i].caller.kind = "cache"
          /\ createResponse(i, FALSE)
    \/ \E i \in 1..Len(pending), outcome \in {"fail", "reject"} :
          /\ pending[i].kind = "execute" /\ pending[i].caller.kind = "cache"
          /\ executeResponse(i, outcome)

\* C6: every cache entry under key K holds the rows of a successful execution
\* of the definition serialised as K, and a cache-miss call that is blocked
\* by validation or whose execution fails adds no entry.
CacheOnSuccessOnly ==
    /\ [](\A e \in cachedResults : RowsFor(e.key, e.rows))
    /\ [][FailedMissReturns => cachedResults' = cachedResults]_vars


(***************************************************************************)
(* SpecAsync and SpecLoad: the user acts while requests are in flight (at   *)
(* most MaxPending at a time), and every request may succeed or fail.      *)
(* SpecAsync: model changes with settings export and import.  SpecLoad:    *)
(* model changes with report executions.                                   *)
(***************************************************************************)
\* 0 is a falsy id, 3 the id of no model
ModelIds == 0..3

\* the part of the state a model change works on
ModelState ==
    [selectedModel |-> selectedModel, availableFields |-> availableFields,
     definition |-> Live, reportData |-> reportData,
     reportCount |-> reportCount, currentStep |-> currentStep]

\* a user call of onModelChange: it fails at once (no such model) or awaits
\* the field list
ProbeChange(modelId) ==
    probe' = IF modelId = 0 THEN NoProbe
             ELSE IF FindIndex(availableModels, LAMBDA m : m.id = modelId) = 0
             THEN [stage |-> "failed", pre |-> ModelState]
             ELSE [stage |-> "changing", pre |-> ModelState]

\* the answer to the call just issued, nothing having happened in between
ProbeFields(i, outcome) ==
    probe' = IF /\ probe.stage = "changing"
                /\ i = Len(pending)
                /\ outcome # "ok"
             THEN [probe EXCEPT !.stage = "failed"]
             ELSE NoProbe

ProbeImport(file) ==
    probe' = IF Malformed(file) THEN [stage |-> "rejected", file |-> file.name]
             ELSE NoProbe

AsyncStart ==
    \/ loadInitialData /\ NoObs
    \/ \E i \in 1..Len(pending), ok \in BOOLEAN : loadResponse(i, ok) /\ NoObs

AsyncModel ==
    \/ \E id \in ModelIds :
          /\ Interactive /\ Len(pending) < MaxPending
          /\ onModelChange(id, User) /\ ProbeChange(id) /\ UNCHANGED cacheLog
    \/ \E i \in 1..Len(pending), outcome \in {"ok", "fail", "reject"} :
          /\ pending[i].kind = "fields"
          /\ fieldsResponse(i, outcome) /\ ProbeFields(i, outcome)
          /\ UNCHANGED cacheLog

\* the user puts a first field into the report
AsyncEdit ==
    \E i \in 1..Len(availableFields) :
        /\ Interactive /\ selectedFields = <<>>
        /\ addField(availableFields[i]) /\ NoObs

AsyncSettings ==
    \/ Interactive /\ settingsFile = NoFile /\ exportSettings /\ NoObs
    \/ \E file \in MalformedFiles \cup ({settingsFile} \ {NoFile}) :
          /\ Interactive /\ Len(pending) < MaxPending /\ Len(history) < MaxHist
          /\ importSettings(file) /\ ProbeImport(file) /\ UNCHANGED cacheLog

AsyncExec ==
    \/ Interactive /\ Len(pending) < MaxPending /\ executeReport(User) /\ NoObs
    \/ \E i \in 1..Len(pending), ok \in BOOLEAN :
          pending[i].kind = "create" /\ createResponse(i, ok) /\ NoObs
    \/ \E i \in 1..Len(pending), outcome \in {"ok", "fail", "reject"} :
          pending[i].kind = "execute" /\ executeResponse(i, outcome) /\ NoObs

NextAsync ==
    \/ AsyncStart
    \/ AsyncModel
    \/ AsyncEdit
    \/ AsyncSettings

SpecAsync == Init /\ [][NextAsync]_vars

NextLoad ==
    \/ AsyncStart
    \/ AsyncModel
    \/ AsyncEdit
    \/ AsyncExec

SpecLoad == Init /\ [][NextLoad]_vars

(***************************************************************************)
(* Properties checked under SpecAsync (C7, C9, C10) and SpecLoad (C8).     *)
(***************************************************************************)
\* C7: when a call of onModelChange has failed (no such model, RPC rejected,
\* success = false), selectedModel, availableFields, the four collections,
\* reportData, reportCount and currentStep are what they were before the call.
FailedChangeKeepsState ==
    probe.stage = "failed" => ModelState = probe.pre

\* an invocation finishes in this step: a request leaves the pending ones
\* with no request following it, or onModelChange ends at once on an id of
\* no model
InvocationFinishes ==
    \/ Len(pending') < Len(pending)
    \/ \E id \in ModelIds \ {0} :
          /\ FindIndex(availableModels, LAMBDA m : m.id = id) = 0
          /\ onModelChange(id, User)

\* C8: every invocation of loadInitialData, onModelChange (truthy id) and
\* executeReport (past validation) sets loading to false when it finishes,
\* on success and on every failure path; whenever none is pending, loading
\* is false.
LoadingReleased ==
    /\ [](pending = <<>> => ~loading)
    /\ [][InvocationFinishes => ~loading']_vars

\* C8 witness: an awaited model change has just failed, nothing is pending
\* and loading is released
ReleasedAfterFailure ==
    /\ probe.stage = "failed"
    /\ selectedModel # probe.pre.selectedModel
    /\ notification = "danger"
    /\ pending = <<>>
    /\ ~loading

\* the import of the exported document completes in this step, the field
\* list having been fetched
ImportCompletes(i) ==
    /\ pending[i].kind = "fields"
    /\ pending[i].caller.kind = "import"
    /\ settingsFile # NoFile
    /\ pending[i].caller.settings = settingsFile.settings
    /\ fieldsResponse(i, "ok")

\* C9: when the import of the exported document completes (field list
\* fetched), selectedModel, selectedFields, filters, groups and sorts are
\* what they were at export time.
ImportRoundTrip ==
    [][\A i \in 1..Len(pending) :
          ImportCompletes(i)
          => /\ selectedModel' = settingsFile.settings.model
             /\ selectedFields' = settingsFile.settings.fields
             /\ filters' = settingsFile.settings.filters
             /\ groups' = settingsFile.settings.groups
             /\ sorts' = settingsFile.settings.sorts]_vars

\* an import of a document that cannot be parsed or lacks model or fields
MalformedImport ==
    \E file \in MalformedFiles \cup ({settingsFile} \ {NoFile}) :
        Malformed(file) /\ importSettings(file)

\* C10: importing a document that cannot be parsed or lacks model or fields
\* reports an error and leaves selectedModel, availableFields, the four
\* collections, history and historyIndex unchanged.
MalformedImportRejected ==
    [][MalformedImport
       => /\ notification' = "danger"
          /\ UNCHANGED <<selectedModel, availableFields, selectedFields,
                         filters, groups, sorts, history, historyIndex>>]_vars

\* C10 witness: a malformed document has just been rejected in a state with
\* a model, selected fields and a recorded history
ImportRejected ==
    /\ probe.stage = "rejected"
    /\ notification = "danger"
    /\ selectedModel # Null
    /\ selectedFields # <<>>
    /\ history # <<>>

(***************************************************************************)
(* The field handlers, checked under Spec.                                 *)
(***************************************************************************)
\* two entries that differ at most in their sequence number
SameField(a, b) == [a EXCEPT !.sequence = 0] = [b EXCEPT !.sequence = 0]

\* selectedFields' is selectedFields with the entries at i and j exchanged,
\* every other entry in place, and every sequence equal to the position
Exchanged(i, j) ==
    /\ Len(selectedFields') = Len(selectedFields)
    /\ SameField(selectedFields'[i], selectedFields[j])
    /\ SameField(selectedFields'[j], selectedFields[i])
    /\ \A k \in 1..Len(selectedFields) :
          /\ k \notin {i, j} => SameField(selectedFields'[k], selectedFields[k])
          /\ selectedFields'[k].sequence = k

\* C11: moveField(name, direction) on the first field up, the last field
\* down or an absent field leaves selectedFields unchanged; otherwise the
\* field and its neighbour in that direction exchange positions, every other
\* entry keeps its position and every sequence equals the 1-based position.
MoveFieldEffect ==
    [][\A n \in FieldNames, d \in {"up", "down"} :
          moveField(n, d)
          => IF \/ ~HasField(n)
                \/ d = "up" /\ selectedFields[1].name = n
                \/ d = "down" /\ selectedFields[Len(selectedFields)].name = n
             THEN selectedFields' = selectedFields
             ELSE \E i \in 1..Len(selectedFields) :
                     /\ selectedFields[i].name = n
                     /\ Exchanged(i, IF d = "up" THEN i - 1 ELSE i + 1)]_vars

(***************************************************************************)
(* SpecAdd: sequences of at most MaxAdds addField calls on a fresh report, *)
(* the descriptors passed being those a model's field list may hold: any   *)
(* of three names with any type of the format table or a type outside it.  *)
(***************************************************************************)
TypeInputs ==
    {"char", "text", "integer", "float", "monetary", "date", "datetime",
     "boolean", "selection", "many2one"}

FieldInputs ==
    {[name |-> n, string |-> "Label", type |-> t] : n \in FieldNames, t \in TypeInputs}

\* the descriptors passed so far
Passed == IF probe.stage = "adding" THEN probe.passed ELSE <<>>

\* an addField call: the descriptor joins the ones passed; was its name
\* already selected
ProbeAdd(field) ==
    probe' = [stage |-> "adding", passed |-> Append(Passed, field),
              present |-> HasField(field.name)]

AddCalls ==
    \E field \in FieldInputs :
        /\ Interactive /\ Len(Passed) < MaxAdds
        /\ addField(field) /\ ProbeAdd(field) /\ UNCHANGED cacheLog

NextAdd ==
    \/ StartUp
    \/ AddCalls

SpecAdd == Init /\ [][NextAdd]_vars

\* the descriptors of s whose name no earlier descriptor of s carries
RECURSIVE FirstByName(_)
FirstByName(s) ==
    IF s = <<>> THEN <<>>
    ELSE LET earlier == FirstByName(SubSeq(s, 1, Len(s) - 1))
             last == s[Len(s)]
         IN IF \E k \in 1..Len(earlier) : earlier[k].name = last.name
            THEN earlier ELSE Append(earlier, last)

\* C12: after any sequence of addField calls selectedFields holds exactly
\* one entry per distinct name passed, in first-insertion order, each with
\* the format_type the type table gives its type (monetary gives currency, a
\* type outside the table gives text); a call with a name already present
\* leaves selectedFields as it was and only warns.
AddFieldSequence ==
    LET firsts == FirstByName(Passed)
    IN /\ Len(selectedFields) = Len(firsts)
       /\ \A k \in 1..Len(firsts) :
             /\ selectedFields[k].name = firsts[k].name
             /\ selectedFields[k].type = firsts[k].type
             /\ selectedFields[k].format_type = guessFormatType(firsts[k].type)
             /\ firsts[k].type = "monetary"
                   => selectedFields[k].format_type = "currency"
             /\ firsts[k].type = "many2one"
                   => selectedFields[k].format_type = "text"
       /\ probe.stage = "adding"
             => (probe.present <=> notification = "warning")

\* C12 witness: three calls, the second with the name of the first (and
\* another type), have left two entries, one of a type outside the table
RepeatedNameIgnored ==
    /\ Len(Passed) = 3
    /\ Passed[2].name = Passed[1].name
    /\ Passed[2].type # Passed[1].type
    /\ Passed[3].type = "many2one"
    /\ Len(selectedFields) = 2
    /\ selectedFields[2].format_type = "text"
    /\ notification = "success"

(***************************************************************************)
(* SpecValidate: the report is executed (which validates it first) in      *)
(* every combination of model, fields and filter settings the user can     *)
(* reach; the user waits for an execution to return.                       *)
(***************************************************************************)
ValEdit ==
    \/ \E i \in 1..Len(availableFields) :
          /\ Interactive /\ Quiet /\ selectedFields = <<>>
          /\ addField(availableFields[i]) /\ NoObs
    \/ \E n \in SelectedNames : Interactive /\ Quiet /\ removeField(n) /\ NoObs

ValFilters ==
    \/ Interactive /\ Quiet /\ Len(filters) < MaxFilters /\ addFilter /\ NoObs
    \/ \E id \in FilterIds, e \in {<<"field", "name">>, <<"value", "x">>,
                                   <<"operator", "!=">>} :
          Interactive /\ Quiet /\ updateFilter(id, e[1], e[2]) /\ NoObs
    \/ \E id \in FilterIds :
          Interactive /\ Quiet /\ updateFilter(id, "active", FALSE) /\ NoObs

ValExec ==
    \/ Interactive /\ Quiet /\ executeReport(User) /\ NoObs
    \/ /\ Len(pending) = 1 /\ pending[1].kind = "create"
       /\ createResponse(1, FALSE) /\ NoObs

NextValidate ==
    \/ StartUp
    \/ ExecModel
    \/ ValEdit
    \/ ValFilters
    \/ ValExec

SpecValidate == Init /\ [][NextValidate]_vars

\* no model, or no field, or an active filter with a field, an empty value
\* and an operator other than '!='
MustBlock ==
    \/ selectedModel = Null
    \/ selectedFields = <<>>
    \/ \E i \in 1..Len(filters) :
          /\ filters[i].active
          /\ filters[i].field # ""
          /\ filters[i].value = ""
          /\ filters[i].operator # "!="

\* C13: the validation that opens executeReport fails, with a non-empty
\* errors list and no request issued, exactly when no model is selected, or
\* selectedFields is empty, or some active filter has a field, an empty
\* value and an operator other than '!='; otherwise it passes, errors is
\* empty and the execution goes on to its first request.
ValidationExact ==
    [][executeReport(User)
       => IF MustBlock
          THEN errors' # <<>> /\ pending' = pending /\ notification' = "danger"
          ELSE errors' = <<>> /\ Len(pending') = Len(pending) + 1]_vars

\* C13 witness: an execution has passed validation with an active filter
\* that has a field, the operator '!=' and no value
PassedWithUnequalFilter ==
    /\ Len(pending) = 1 /\ pending[1].kind = "create"
    /\ errors = <<>>
    /\ \E i \in 1..Len(filters) :
          /\ filters[i].active /\ filters[i].field # ""
          /\ filters[i].value = "" /\ filters[i].operator = "!="

(***************************************************************************)
(* SpecTimer: auto-refresh.  The user selects a model and a field, runs    *)
(* the report, switches auto-refresh on and off and changes its period;    *)
(* an active interval timer fires at any moment, also while requests are   *)
(* in flight; the component is destroyed at any moment after mounting.     *)
(* Only the timer calls executeWithCache here.                             *)
(***************************************************************************)
\* the periods the user chooses, in seconds
IntervalInputs == {10, 60}

\* a tick of the timer: did it start a report execution
ProbeTick ==
    probe' = [stage |-> "tick", started |-> Len(pending') > Len(pending)]

TimerRun ==
    \/ Interactive /\ Quiet /\ executeReport(User) /\ NoObs
    \/ \E i \in 1..Len(pending), ok \in BOOLEAN :
          pending[i].kind = "create" /\ createResponse(i, ok) /\ NoObs
    \/ \E i \in 1..Len(pending), outcome \in {"ok", "fail", "reject"} :
          pending[i].kind = "execute" /\ executeResponse(i, outcome) /\ NoObs

TimerControls ==
    \/ /\ Interactive /\ (autoRefresh \/ timerSeq < MaxTimers)
       /\ toggleAutoRefresh /\ NoObs
    \/ \E seconds \in IntervalInputs :
          /\ Interactive /\ (~autoRefresh \/ timerSeq < MaxTimers)
          /\ setRefreshInterval(seconds) /\ NoObs

TimerFires ==
    \E t \in timers :
        /\ Len(pending) < MaxPending
        /\ executionStats.totalExecutions < MaxExecutions
        /\ refreshTick(t) /\ ProbeTick /\ UNCHANGED cacheLog

Teardown == lifecycle = "mounted" /\ willDestroy /\ NoObs

NextTimer ==
    \/ StartUp
    \/ ExecModel
    \/ AsyncEdit
    \/ TimerRun
    \/ TimerControls
    \/ TimerFires
    \/ Teardown

SpecTimer == Init /\ [][NextTimer]_vars

\* C14: once willDestroy has run no interval timer is left, so no tick
\* fires, and no execution request is started, whatever autoRefresh and the
\* period were.
TeardownStopsRefresh ==
    /\ [](lifecycle = "destroyed" => timers = {} /\ refreshTimer = 0)
    /\ [][lifecycle = "destroyed"
          => /\ ~(\E t \in timers : refreshTick(t))
             /\ Len(pending') <= Len(pending)]_vars

\* C14 witness: the component was destroyed with auto-refresh on, a period
\* the user had chosen, a report on screen and a request in flight
DestroyedWhileRefreshing ==
    /\ lifecycle = "destroyed"
    /\ autoRefresh
    /\ refreshInterval # DefaultInterval
    /\ timerSeq > 0
    /\ reportData # Null
    /\ pending # <<>>
    /\ timers = {}

\* the executions in flight that a tick of the timer started (in SpecTimer
\* nothing else calls executeWithCache)
TickExecutions ==
    {i \in 1..Len(pending) :
        pending[i].kind \in {"create", "execute"} /\ pending[i].caller.kind = "cache"}

\* C20: a tick never starts a report execution while an execution started by
\* an earlier tick is still pending: at most one tick-initiated execution is
\* in flight at any time.
TicksSerialized ==
    /\ [](Cardinality(TickExecutions) <= 1)
    /\ [][((\E t \in timers : refreshTick(t)) /\ TickExecutions # {})
          => pending' = pending]_vars

(***************************************************************************)
(* SpecHit: what a cache hit puts on screen.  As SpecExec, and the count   *)
(* the server reports may exceed the number of rows it returns.  Here      *)
(* cacheLog keeps, for every key stored since the last clearCache, what    *)
(* reportData and reportCount were when the execution that stored the      *)
(* entry returned, and whether that execution succeeded.                   *)
(***************************************************************************)
\* the counts the server may report with these rows
ServerCounts(call) == {ServerRows(call).length, ServerRows(call).length + 1}

\* the observer's part of a step in which an execution may return to
\* executeWithCache
LogStored(key, succeeded) ==
    IF cachedResults' # cachedResults
    THEN cacheLog' = {e \in cacheLog : e.key # key}
                        \cup {[key |-> key, succeeded |-> succeeded,
                               data |-> reportData', count |-> reportCount']}
    ELSE UNCHANGED cacheLog

ProbeServed ==
    probe' = [stage |-> IF CacheHas(cachedResults, generateCacheKey)
                        THEN "hit" ELSE "miss",
              key |-> generateCacheKey]

HitCalls ==
    \/ /\ Interactive /\ Quiet
       /\ \/ CacheHas(cachedResults, generateCacheKey)
          \/ executionStats.totalExecutions < MaxExecutions
       /\ executeWithCache /\ LogStored(generateCacheKey, FALSE) /\ ProbeServed
    \/ Interactive /\ Quiet /\ cachedResults # {} /\ clearCache
       /\ cacheLog' = {} /\ ProbeReset

HitResponses ==
    \/ \E ok \in BOOLEAN :
          /\ Len(pending) = 1 /\ pending[1].kind = "create"
          /\ createResponse(1, ok)
          /\ LogStored(pending[1].caller.cacheKey, FALSE) /\ ProbeReset
    \/ \E outcome \in {"ok", "fail", "reject"} :
          /\ Len(pending) = 1 /\ pending[1].kind = "execute"
          /\ \E count \in ServerCounts(pending[1]) :
                executeAnswered(1, outcome, count)
          /\ LogStored(pending[1].caller.cacheKey, outcome = "ok") /\ ProbeReset

NextHit ==
    \/ StartUp
    \/ ExecModel
    \/ ExecEdit
    \/ HitCalls
    \/ HitResponses

SpecHit == Init /\ [][NextHit]_vars

\* C15: a call of executeWithCache that finds an entry under its key sets
\* reportData and reportCount to what the execution that stored the entry
\* produced: the data and the count of its successful answer.
HitRestoresExecution ==
    [][(executeWithCache /\ CacheHas(cachedResults, generateCacheKey))
       => \E e \in cacheLog :
             /\ e.key = generateCacheKey
             /\ e.succeeded
             /\ reportData' = e.data
             /\ reportCount' = e.count]_vars

(***************************************************************************)
(* SpecIds: adding and removing filters, sorts and groups while the clock  *)
(* runs.                                                                   *)
(***************************************************************************)
MaxEntries == 2

SortIds == {sorts[i].id : i \in 1..Len(sorts)}

GroupIds == {groups[i].id : i \in 1..Len(groups)}

IdsFilters ==
    \/ Interactive /\ Len(filters) < MaxEntries /\ addFilter /\ NoObs
    \/ \E id \in FilterIds : Interactive /\ removeFilter(id) /\ NoObs
    \/ \E id \in FilterIds : Interactive /\ updateFilter(id, "value", "x") /\ NoObs

IdsSorts ==
    \/ Interactive /\ Len(sorts) < MaxEntries /\ addSort /\ NoObs
    \/ \E id \in SortIds : Interactive /\ removeSort(id) /\ NoObs

IdsGroups ==
    \/ Interactive /\ Len(groups) < MaxEntries /\ addGroup /\ NoObs
    \/ \E id \in GroupIds : Interactive /\ removeGroup(id) /\ NoObs

NextIds ==
    \/ StartUp
    \/ IdsFilters
    \/ IdsSorts
    \/ IdsGroups
    \/ CapTick

SpecIds == Init /\ [][NextIds]_vars

\* the ids of the entries of a sequence are pairwise distinct
DistinctIds(entries) ==
    \A i, j \in 1..Len(entries) : i # j => entries[i].id # entries[j].id

\* C16: in every reachable state the ids within filters, within sorts and
\* within groups are pairwise distinct, and removeFilter(id) and
\* updateFilter(id, ...) called with the id of the k-th filter remove,
\* respectively change, the k-th filter and no other.
IdsUnique ==
    /\ [](DistinctIds(filters) /\ DistinctIds(sorts) /\ DistinctIds(groups))
    /\ [][\A k \in 1..Len(filters) :
            /\ removeFilter(filters[k].id) => filters' = RemoveAt(filters, k)
            /\ updateFilter(filters[k].id, "value", "x")
                  => filters' = [filters EXCEPT ![k].value = "x"]]_vars

(***************************************************************************)
(* SpecUndo: the history under addField, duplicateField, bulk add, undo    *)
(* and redo.  A history-producing action may follow an undo; the history   *)
(* is kept to MaxHist entries.                                             *)
(***************************************************************************)
UndoEdit ==
    \E i \in 1..Len(availableFields) :
        /\ Interactive /\ Quiet /\ Len(selectedFields) < MaxFields
        /\ addField(availableFields[i]) /\ NoObs

UndoActions ==
    \/ \E n \in SelectedNames :
          /\ Interactive /\ Quiet
          /\ Len(selectedFields) < MaxFields /\ historyIndex + 1 < MaxHist
          /\ duplicateField(n) /\ ProbeActed /\ UNCHANGED cacheLog
    \/ \E chosen \in DialogSelections(dialog.availableFields) :
          /\ dialog.kind = "bulk"
          /\ Len(selectedFields) + Len(chosen) <= MaxFields
          /\ bulkConfirm(chosen) /\ ProbeActed /\ UNCHANGED cacheLog

UndoBulk ==
    \/ Interactive /\ Quiet /\ historyIndex + 1 < MaxHist /\ bulkAddFields /\ NoObs
    \/ closeDialog /\ NoObs

NextUndo ==
    \/ StartUp
    \/ ExecModel
    \/ UndoEdit
    \/ UndoBulk
    \/ UndoActions
    \/ UndoRedo

SpecUndo == Init /\ [][NextUndo]_vars

\* the cursor has moved to idx and the four collections are the snapshot there
MovedTo(idx) ==
    /\ historyIndex' = idx
    /\ Live' = history'[idx + 1].state

HistoryKept ==
    UNCHANGED <<history, historyIndex, selectedFields, filters, groups, sorts>>

\* C17: the cursor stays within -1 .. Len(history) - 1; undo() with the
\* cursor at the oldest entry or with an empty history, and redo() with the
\* cursor at the newest entry, leave history, historyIndex and the four
\* collections unchanged; any other undo() or redo() moves the cursor by
\* exactly one, after which the four collections equal the snapshot at the
\* new cursor.
UndoRedoSteps ==
    /\ [](-1 <= historyIndex /\ historyIndex <= Len(history) - 1)
    /\ [][undo => IF historyIndex <= 0 THEN HistoryKept
                  ELSE MovedTo(historyIndex - 1)]_vars
    /\ [][redo => IF historyIndex >= Len(history) - 1 THEN HistoryKept
                  ELSE MovedTo(historyIndex + 1)]_vars

\* C17 witness: an undo() has just moved the cursor back from the newest
\* entry to a snapshot that differs from it
UndoneInRange ==
    /\ probe.stage = "undone"
    /\ historyIndex = Len(history) - 2
    /\ Live = history[historyIndex + 1].state
    /\ Live # history[historyIndex + 2].state

\* a step of a handler of SpecUndo that calls addToHistory
Recorded ==
    \/ \E n \in SelectedNames : duplicateField(n)
    \/ \E chosen \in DialogSelections(dialog.availableFields) :
          dialog.kind = "bulk" /\ bulkConfirm(chosen)

\* C18: addToHistory leaves no entry that was after the cursor: the history
\* then ends with the new entry right after the entry the cursor was at (up
\* to the capacity), the cursor is the last index, and a redo() called
\* immediately after the handler only warns.
BranchDiscarded ==
    /\ [][Recorded
          => /\ Len(history') = IF historyIndex + 2 > HistoryLimit
                                THEN HistoryLimit ELSE historyIndex + 2
             /\ historyIndex' = Len(history') - 1
             /\ history'[Len(history')].state = Live']_vars
    /\ [][(probe.stage = "acted" /\ redo)
          => notification' = "warning" /\ HistoryKept]_vars

\* C18 witness: a handler has just called addToHistory with the cursor before
\* the last entry
BranchCut ==
    /\ probe.stage = "acted"
    /\ probe.cursor < probe.held - 1
    /\ Len(history) = probe.cursor + 2
    /\ historyIndex = Len(history) - 1

(***************************************************************************)
(* executeReport and the wizard step, checked under SpecLoad.              *)
(***************************************************************************)
\* an execution fails in this step: the persistence call rejects, or the
\* execution RPC rejects or answers success = false
ExecutionFails ==
    \/ \E i \in 1..Len(pending) :
          pending[i].kind = "create" /\ createResponse(i, FALSE)
    \/ \E i \in 1..Len(pending), outcome \in {"fail", "reject"} :
          pending[i].kind = "execute" /\ executeResponse(i, outcome)

\* C19: currentStep becomes 4 only in the step in which an execution RPC
\* answers success; a call of executeReport that validation blocks issues no
\* request; and when validation blocks the call or the execution fails,
\* reportData, reportCount and currentStep stay as they are.
StepFourOnSuccess ==
    /\ [][(currentStep' = 4 /\ currentStep # 4)
          => \E i \in 1..Len(pending) :
                pending[i].kind = "execute" /\ executeResponse(i, "ok")]_vars
    /\ [][(executeReport(User) /\ ValidationErrors # <<>>)
          => pending' = pending /\ UNCHANGED reportVars]_vars
    /\ [][ExecutionFails => UNCHANGED reportVars]_vars

\* C19 witness: with the results of an earlier execution on screen, a call of
\* executeReport has been blocked by validation; the results and the step
\* are still there
BlockedAfterResults ==
    /\ errors # <<>>
    /\ notification = "danger"
    /\ pending = <<>>
    /\ reportData # Null
    /\ currentStep = 4

(***************************************************************************)
(* The timer under toggleAutoRefresh and setRefreshInterval, checked under *)
(* SpecTimer.                                                              *)
(***************************************************************************)
\* C21: at most one interval timer is active at any time; until the
\* component is destroyed a timer is active exactly when autoRefresh is
\* true, and it is the one refreshTimer names; setRefreshInterval with
\* autoRefresh on clears the running timer and leaves exactly one, a new
\* one with the new period; with autoRefresh off it starts none.
TimerRestart ==
    /\ [](Cardinality(timers) <= 1)
    /\ [](lifecycle # "destroyed"
            => /\ autoRefresh <=> timers # {}
               /\ \A t \in timers : t.id = refreshTimer)
    /\ [][\A seconds \in IntervalInputs :
            setRefreshInterval(seconds)
               => IF autoRefresh
                  THEN /\ timers' = {[id |-> refreshTimer',
                                      period |-> seconds * 1000]}
                       /\ timers' \cap timers = {}
                  ELSE timers' = {} /\ timers = {}]_vars

\* C21 witness: setRefreshInterval has just restarted the timer of an
\* auto-refresh that was on (no report is on screen, so no tick has notified
\* since)
TimerRestarted ==
    /\ lifecycle = "mounted"
    /\ autoRefresh
    /\ notification = "info"
    /\ reportData = Null
    /\ timerSeq >= 2
    /\ refreshInterval # DefaultInterval
    /\ timers = {[id |-> refreshTimer, period |-> refreshInterval]}

(***************************************************************************)
(* The bulk add, checked under SpecUndo.                                   *)
(***************************************************************************)
\* C22: confirming the bulk dialog with k chosen fields on a selectedFields
\* of length L keeps the L entries, appends exactly k entries in the chosen
\* order, the i-th of them with sequence L + i, and appends exactly one
\* history entry, which records count k.
BulkAddEffect ==
    [][\A chosen \in DialogSelections(dialog.availableFields) :
          (dialog.kind = "bulk" /\ bulkConfirm(chosen))
             => LET L == Len(selectedFields)
                    k == Len(chosen)
                    kept == Truncated(history, historyIndex)
                IN /\ Len(selectedFields') = L + k
                   /\ SubSeq(selectedFields', 1, L) = selectedFields
                   /\ \A i \in 1..k :
                         /\ selectedFields'[L + i].name = chosen[i].name
                         /\ selectedFields'[L + i].sequence = L + i
                   /\ Len(history') = Len(kept) + 1
                   /\ history'[Len(history')].action = "bulk_add_fields"
                   /\ history'[Len(history')].data = [count |-> k]]_vars

(***************************************************************************)
(* SpecLate: executions overtaken by a model change.  The user changes or  *)
(* clears the model and executes the report while requests are in flight.  *)
(* Here probe is at stage "cleared" from the step in which onModelChange   *)
(* resets the report definition until the next call of executeReport: in   *)
(* between, every execution in flight was started before the reset.        *)
(***************************************************************************)
ProbeCleared == probe' = [stage |-> "cleared"]

LateModel ==
    \/ /\ Interactive /\ selectedModel # Null
       /\ onModelChange(0, User) /\ ProbeCleared /\ UNCHANGED cacheLog
    \/ \E id \in 1..2 :
          /\ Interactive /\ Len(pending) < MaxPending
          /\ onModelChange(id, User) /\ UNCHANGED obsVars
    \/ \E i \in 1..Len(pending) :
          /\ pending[i].kind = "fields"
          /\ fieldsResponse(i, "ok") /\ ProbeCleared /\ UNCHANGED cacheLog
    \/ \E i \in 1..Len(pending), outcome \in {"fail", "reject"} :
          /\ pending[i].kind = "fields"
          /\ fieldsResponse(i, outcome) /\ UNCHANGED obsVars

LateEdit ==
    \E i \in 1..Len(availableFields) :
        /\ Interactive /\ selectedFields = <<>>
        /\ addField(availableFields[i]) /\ UNCHANGED obsVars

LateExec ==
    \/ /\ Interactive /\ Len(pending) < MaxPending
       /\ executeReport(User) /\ ProbeReset /\ UNCHANGED cacheLog
    \/ \E i \in 1..Len(pending), ok \in BOOLEAN :
          pending[i].kind = "create" /\ createResponse(i, ok) /\ UNCHANGED obsVars
    \/ \E i \in 1..Len(pending), outcome \in {"ok", "fail", "reject"} :
          /\ pending[i].kind = "execute"
          /\ executeResponse(i, outcome) /\ UNCHANGED obsVars

NextLate ==
    \/ StartUp
    \/ LateModel
    \/ LateEdit
    \/ LateExec

SpecLate == Init /\ [][NextLate]_vars

\* C23: once onModelChange has reset the report definition, and until
\* executeReport is called again, reportData stays null, reportCount stays 0
\* and currentStep is not 4: the response of an execution started before the
\* reset changes none of them.
ResetSurvivesLateResponse ==
    probe.stage = "cleared"
       => reportData = Null /\ reportCount = 0 /\ currentStep # 4

(***************************************************************************)
(* SpecOverlap: overlapping model changes.  The user changes the model     *)
(* while field-list requests are in flight and the answers arrive in any   *)
(* order.  Here probe follows the most recently issued onModelChange: its  *)
(* request is the last of the pending ones until it is answered.           *)
(***************************************************************************)
ProbeIssued == probe' = [stage |-> "issued"]

ProbeAnswered(i, outcome) ==
    probe' = IF i = Len(pending)
             THEN [stage |-> IF outcome = "ok" THEN "succeeded" ELSE "failed"]
             ELSE probe

OverlapModel ==
    \/ \E id \in 1..2 :
          /\ Interactive /\ Len(pending) < MaxPending
          /\ onModelChange(id, User) /\ ProbeIssued /\ UNCHANGED cacheLog
    \/ \E i \in 1..Len(pending), outcome \in {"ok", "fail", "reject"} :
          /\ pending[i].kind = "fields"
          /\ fieldsResponse(i, outcome) /\ ProbeAnswered(i, outcome)
          /\ UNCHANGED cacheLog

NextOverlap ==
    \/ StartUp
    \/ OverlapModel
    \/ LateEdit

SpecOverlap == Init /\ [][NextOverlap]_vars

\* C24: whenever no onModelChange request is pending and the most recently
\* issued one has succeeded, availableFields is the field list the server
\* returns for selectedModel, in whatever order the answers of overlapping
\* calls arrived.
FieldsOfSelectedModel ==
    (pending = <<>> /\ probe.stage = "succeeded")
       => /\ selectedModel # Null
          /\ availableFields = ServerFields(selectedModel.model)

(***************************************************************************)
(* SpecStale: as SpecUndo, and the user changes the model whenever no      *)
(* request is pending, also when the history holds entries.                *)
(***************************************************************************)
StaleModel ==
    \/ \E id \in 1..2 :
          /\ Interactive /\ Quiet /\ selectedModel # Null
          /\ onModelChange(id, User) /\ NoObs
    \/ \E i \in 1..Len(pending) :
          /\ pending[i].kind = "fields" /\ pending[i].caller.kind = "user"
          /\ selectedFields # <<>>
          /\ fieldsResponse(i, "fail") /\ NoObs

NextStale ==
    \/ StartUp
    \/ ExecModel
    \/ StaleModel
    \/ UndoEdit
    \/ UndoBulk
    \/ UndoActions
    \/ UndoRedo

SpecStale == Init /\ [][NextStale]_vars

\* C25: in every reachable state with no RPC pending, every entry of
\* selectedFields names a field of availableFields, the field list of the
\* selected model; also after an undo() or redo() that follows a model
\* change.
SelectedFieldsOfModel ==
    pending = <<>>
       => /\ selectedFields # <<>> => selectedModel # Null
          /\ \A i \in 1..Len(selectedFields) :
                \E j \in 1..Len(availableFields) :
                    availableFields[j].name = selectedFields[i].name

(***************************************************************************)
(* SpecPreview: cached executions with the preview switch.  The switch is  *)
(* a control of the widget's template bound to state.previewMode; the user *)
(* flips it between executions.                                            *)
(***************************************************************************)
togglePreview ==
    /\ previewMode' = ~previewMode
    /\ UNCHANGED <<modelVars, defVars, reportVars, loading, errors, histVars,
                   cacheVars, now, pending, settingsFile, dialog, notification,
                   lifecycle, timerVars>>

PreviewSwitch == Interactive /\ Quiet /\ togglePreview /\ NoObs

PreviewCalls ==
    \/ /\ Interactive /\ Quiet
       /\ \/ CacheHas(cachedResults, generateCacheKey)
          \/ executionStats.totalExecutions < MaxExecutions
       /\ executeWithCache /\ NoObs
    \/ Interactive /\ Quiet /\ cachedResults # {} /\ clearCache /\ NoObs

PreviewResponses ==
    \/ \E ok \in BOOLEAN :
          /\ Len(pending) = 1 /\ pending[1].kind = "create"
          /\ createResponse(1, ok) /\ NoObs
    \/ \E outcome \in {"ok", "fail", "reject"} :
          /\ Len(pending) = 1 /\ pending[1].kind = "execute"
          /\ executeResponse(1, outcome) /\ NoObs

NextPreview ==
    \/ StartUp
    \/ ExecModel
    \/ ExecEdit
    \/ PreviewSwitch
    \/ PreviewCalls
    \/ PreviewResponses

SpecPreview == Init /\ [][NextPreview]_vars

\* the limit executeReport sends under the current previewMode (0: none)
CurrentLimit == IF previewMode THEN PreviewLimit ELSE 0

\* C26: the rows a call of executeWithCache restores on a cache hit were
\* fetched under the limit of the current previewMode (100 in preview mode,
\* none otherwise).
HitRespectsLimit ==
    [][(executeWithCache /\ CacheHas(cachedResults, generateCacheKey))
       => reportData'.limit = CurrentLimit]_vars

=============================================================================
